---- MODULE Spec2Model ----
(***************************************************************************)
(* Recipe API (src/app/main.py): three read-only GET endpoints over the    *)
(* module-level list RECIPES, served by a pool of threads.                 *)
(*                                                                         *)
(* Python values are tagged records [type, s, n]: text is a sequence of    *)
(* one-character strings in field s, an integer is in field n.  A request  *)
(* is what the framework hands to the endpoint function after parsing the  *)
(* path and the query string; a query parameter that is not in the query   *)
(* string is Absent and is bound to the default of the signature.          *)
(***************************************************************************)
EXTENDS Integers, Sequences, FiniteSets

\* ---------------------------------------------------------------- bounds
\* explicit max_results values range over -MaxLimit..MaxLimit
MaxLimit == 4
\* number of threads of the pool running endpoint functions
NumThreads == 2

\* ---------------------------------------------------------- Python values
PyStr(chars) == [type |-> "str", s |-> chars, n |-> 0]
PyInt(i) == [type |-> "int", s |-> <<>>, n |-> i]
PyNone == [type |-> "NoneType", s |-> <<>>, n |-> 0]
\* a query parameter missing from the query string
Absent == [type |-> "absent", s |-> <<>>, n |-> 0]

UpperCase == <<"A", "B", "C", "D", "E", "F", "G", "H", "I", "J", "K", "L", "M",
               "N", "O", "P", "Q", "R", "S", "T", "U", "V", "W", "X", "Y", "Z">>
LowerCase == <<"a", "b", "c", "d", "e", "f", "g", "h", "i", "j", "k", "l", "m",
               "n", "o", "p", "q", "r", "s", "t", "u", "v", "w", "x", "y", "z">>

\* str.lower() left out: the comparison becomes case-sensitive
py_lower_identity(v) == v

\* str.lower() on ASCII text: every upper-case letter is replaced
py_lower(v) ==
    PyStr([i \in 1..Len(v.s) |->
            IF \E j \in 1..26 : UpperCase[j] = v.s[i]
            THEN LowerCase[CHOOSE j \in 1..26 : UpperCase[j] = v.s[i]]
            ELSE v.s[i]])

\* `a in b` for two str values: a is a contiguous slice of b
py_in(a, b) ==
    \E off \in 0..(Len(b.s) - Len(a.s)) :
        SubSeq(b.s, off + 1, off + Len(a.s)) = a.s

\* value of a text made of decimal digits, -1 for any other text
RECURSIVE DigitsValue(_)
DigitsValue(chars) ==
    LET Digits == <<"0", "1", "2", "3", "4", "5", "6", "7", "8", "9">>
        last == chars[Len(chars)]
    IN  IF Len(chars) = 0 THEN 0
        ELSE IF ~(\E d \in 1..10 : Digits[d] = last) THEN -1
        ELSE LET rest == DigitsValue(SubSeq(chars, 1, Len(chars) - 1))
             IN  IF rest < 0 THEN -1
                 ELSE 10 * rest + (CHOOSE d \in 1..10 : Digits[d] = last) - 1

\* an equality that converts digit text to its number before comparing
py_eq_coercing(a, b) ==
    LET num(v) == IF v.type = "str" /\ Len(v.s) > 0 THEN DigitsValue(v.s)
                  ELSE IF v.type = "int" THEN v.n ELSE -1
    IN  a = b \/ (a.type # b.type /\ num(a) >= 0 /\ num(a) = num(b))

\* `a == b`: values of different types (int and str) are never equal
py_eq(a, b) == a.type = b.type /\ a.s = b.s /\ a.n = b.n

\* truth value of a str / int / None, as tested by `not keyword`
py_truthy(v) ==
    CASE v.type = "NoneType" -> FALSE
      [] v.type = "str" -> Len(v.s) > 0
      [] v.type = "int" -> v.n # 0
      [] OTHER -> TRUE

\* a slice that drops one element too many
PySliceToShort(seq, stop) ==
    LET hi == IF stop < 0 THEN Len(seq) + stop ELSE stop
        cut == IF hi - 1 < 0 THEN 0 ELSE IF hi - 1 > Len(seq) THEN Len(seq) ELSE hi - 1
    IN  SubSeq(seq, 1, cut)

\* seq[:stop] for an int stop: a negative stop counts from the end, and the
\* bound is clamped to 0..len(seq)
PySliceTo(seq, stop) ==
    LET hi == IF stop < 0 THEN Len(seq) + stop ELSE stop
        cut == IF hi < 0 THEN 0 ELSE IF hi > Len(seq) THEN Len(seq) ELSE hi
    IN  SubSeq(seq, 1, cut)

\* line written by print(type(v))
py_type_line(v) ==
    CASE v.type = "str" -> "<class 'str'>"
      [] v.type = "int" -> "<class 'int'>"
      [] OTHER -> "<class 'NoneType'>"

\* ------------------------------------------------------------- the dataset
SeedRecipes == <<
    [id |-> PyInt(1),
     label |-> PyStr(<<"C", "h", "i", "c", "k", "e", "n", " ",
                       "V", "e", "s", "u", "v", "i", "o">>),
     source |-> "Serious Eats",
     url |-> "http://www.seriouseats.com/recipes/2011/12/chicken-vesuvio-recipe.html"],
    [id |-> PyInt(2),
     label |-> PyStr(<<"C", "h", "i", "c", "k", "e", "n", " ",
                       "P", "a", "p", "r", "i", "k", "a", "s", "h">>),
     source |-> "No Recipes",
     url |-> "http://norecipes.com/recipe/chicken-paprikash/"],
    [id |-> PyInt(3),
     label |-> PyStr(<<"C", "a", "u", "l", "i", "f", "l", "o", "w", "e", "r", " ",
                       "a", "n", "d", " ", "T", "o", "f", "u", " ",
                       "C", "u", "r", "r", "y", " ", "R", "e", "c", "i", "p", "e">>),
     source |-> "Serious Eats",
     url |-> "http://www.seriouseats.com/recipes/2011/02/cauliflower-and-tofu-curry-recipe.html"] >>

\* default of the max_results parameter
DefaultMaxResults == 10

\* ------------------------------------------------------- returned values
\* the dict {"msg": m}
RetMsg(m) == [kind |-> "msg", msg |-> m, results |-> <<>>]
\* the dict {"results": rs}
RetResults(rs) == [kind |-> "results", msg |-> "", results |-> rs]
\* one recipe dict
RetRecipe(r) == [kind |-> "recipe", msg |-> "", results |-> <<r>>]
\* the function ends without a return statement: None
RetNone == [kind |-> "None", msg |-> "", results |-> <<>>]

\* ------------------------------------------------------ endpoint functions
\* Each gives the returned value, the value of the global RECIPES when the
\* function returns, and the lines it printed.

\* GET / answering with the listing of the first recipes
root_listing(R) ==
    [ret |-> RetResults(PySliceTo(R, DefaultMaxResults)), RECIPES |-> R, out |-> <<>>]

root(R) ==
    [ret |-> RetMsg("Hello, World!"), RECIPES |-> R, out |-> <<>>]

fetch_recipe(recipe_id, R) ==
    LET result == SelectSeq(R, LAMBDA recipe : py_eq(recipe.id, recipe_id))
    IN  [ret |-> IF Len(result) > 0 THEN RetRecipe(result[1]) ELSE RetNone,
         RECIPES |-> R,
         out |-> <<py_type_line(recipe_id)>>]

\* the listing truncates the global list in place (del RECIPES[max_results:])
search_recipes_truncating(keyword, max_results, R) ==
    IF ~py_truthy(keyword)
    THEN [ret |-> RetResults(PySliceTo(R, max_results.n)),
          RECIPES |-> PySliceTo(R, max_results.n), out |-> <<>>]
    ELSE LET results == SelectSeq(R, LAMBDA recipe :
                            py_in(py_lower(keyword), py_lower(recipe.label)))
         IN  [ret |-> RetResults(PySliceTo(results, max_results.n)),
              RECIPES |-> R, out |-> <<>>]

\* an empty match list falls through without a return value
search_recipes_none_when_empty(keyword, max_results, R) ==
    IF ~py_truthy(keyword)
    THEN [ret |-> RetResults(PySliceTo(R, max_results.n)), RECIPES |-> R, out |-> <<>>]
    ELSE LET results == SelectSeq(R, LAMBDA recipe :
                            py_in(py_lower(keyword), py_lower(recipe.label)))
         IN  [ret |-> IF Len(results) > 0
                      THEN RetResults(PySliceTo(results, max_results.n))
                      ELSE RetNone,
              RECIPES |-> R, out |-> <<>>]

search_recipes(keyword, max_results, R) ==
    IF ~py_truthy(keyword)
    THEN [ret |-> RetResults(PySliceTo(R, max_results.n)), RECIPES |-> R, out |-> <<>>]
    ELSE LET results == SelectSeq(R, LAMBDA recipe :
                            py_in(py_lower(keyword), py_lower(recipe.label)))
         IN  [ret |-> RetResults(PySliceTo(results, max_results.n)),
              RECIPES |-> R, out |-> <<>>]

\* binding of the query parameters of /search/ to the signature's defaults
BindKeyword(q) == IF q = Absent THEN PyNone ELSE q
\* a missing max_results is bound to 2
BindMaxResultsSmall(q) == IF q = Absent THEN PyInt(2) ELSE q
BindMaxResults(q) == IF q = Absent THEN PyInt(DefaultMaxResults) ELSE q

\* ------------------------------------------------------------ the requests
Threads == 1..NumThreads

\* path parameters: "1", "2", "99", "abc"
RecipeIds == { PyStr(<<"1">>), PyStr(<<"2">>), PyStr(<<"9", "9">>),
               PyStr(<<"a", "b", "c">>) }

\* keyword query values: missing, "", "chicken", "CURRY", "xyz"
Keywords == { Absent, PyStr(<<>>),
              PyStr(<<"c", "h", "i", "c", "k", "e", "n">>),
              PyStr(<<"C", "U", "R", "R", "Y">>),
              PyStr(<<"x", "y", "z">>) }

\* max_results query values: missing, or an integer
Limits == { Absent } \cup { PyInt(i) : i \in (0 - MaxLimit)..MaxLimit }

NoRequest == [op |-> "none", recipe_id |-> Absent, keyword |-> Absent,
              max_results |-> Absent]

Requests ==
    { [op |-> "root", recipe_id |-> Absent, keyword |-> Absent,
       max_results |-> Absent] }
    \cup { [op |-> "fetch_recipe", recipe_id |-> id, keyword |-> Absent,
            max_results |-> Absent] : id \in RecipeIds }
    \cup { [op |-> "search_recipes", recipe_id |-> Absent, keyword |-> kw,
            max_results |-> lim] : kw \in Keywords, lim \in Limits }

\* the requests issued while several threads are busy: every endpoint, both
\* branches of search_recipes, limits below, inside and above the list
PoolRequests ==
    { r \in Requests :
        \/ r.op = "root"
        \/ r.op = "fetch_recipe" /\ r.recipe_id \in { PyStr(<<"1">>), PyStr(<<"9", "9">>) }
        \/ /\ r.op = "search_recipes"
           /\ r.keyword \in { Absent, PyStr(<<>>),
                              PyStr(<<"c", "h", "i", "c", "k", "e", "n">>) }
           /\ r.max_results \in { Absent, PyInt(-1), PyInt(1), PyInt(MaxLimit) } }

\* ------------------------------------------------------------------- state
VARIABLES RECIPES, stdout, pc, req, resp

vars == <<RECIPES, stdout, pc, req, resp>>

Init ==
    /\ RECIPES = SeedRecipes
    /\ stdout = ""
    /\ pc = [t \in Threads |-> "idle"]
    /\ req = [t \in Threads |-> NoRequest]
    /\ resp = [t \in Threads |-> RetNone]

\* the router hands a parsed request to a free thread
Dispatch(t, r) ==
    /\ pc[t] = "idle"
    /\ pc' = [pc EXCEPT ![t] = "called"]
    /\ req' = [req EXCEPT ![t] = r]
    /\ UNCHANGED <<RECIPES, stdout, resp>>

\* effect of running an endpoint function to its return on thread t
Finish(t, call) ==
    /\ resp' = [resp EXCEPT ![t] = call.ret]
    /\ RECIPES' = call.RECIPES
    /\ stdout' = IF Len(call.out) > 0 THEN call.out[Len(call.out)] ELSE stdout
    /\ pc' = [pc EXCEPT ![t] = "returned"]
    /\ UNCHANGED req

Root(t) ==
    /\ pc[t] = "called"
    /\ req[t].op = "root"
    /\ Finish(t, root(RECIPES))

FetchRecipe(t) ==
    /\ pc[t] = "called"
    /\ req[t].op = "fetch_recipe"
    /\ Finish(t, fetch_recipe(req[t].recipe_id, RECIPES))

SearchRecipes(t) ==
    /\ pc[t] = "called"
    /\ req[t].op = "search_recipes"
    /\ Finish(t, search_recipes(BindKeyword(req[t].keyword),
                                BindMaxResults(req[t].max_results), RECIPES))

\* the returned value has been serialized and sent; the thread is free again
Respond(t) ==
    /\ pc[t] = "returned"
    /\ pc' = [pc EXCEPT ![t] = "idle"]
    /\ req' = [req EXCEPT ![t] = NoRequest]
    /\ resp' = [resp EXCEPT ![t] = RetNone]
    /\ UNCHANGED <<RECIPES, stdout>>

\* the same, when the server takes the next request only after the previous
\* one has been answered
DispatchSerial(t, r) ==
    /\ \A u \in Threads : pc[u] = "idle"
    /\ Dispatch(t, r)

\* requests are served one at a time
Next ==
    \E t \in Threads :
        \/ \E r \in Requests : DispatchSerial(t, r)
        \/ Root(t)
        \/ FetchRecipe(t)
        \/ SearchRecipes(t)
        \/ Respond(t)

Spec == Init /\ [][Next]_vars

\* requests of all three endpoints are in flight on several threads at once
NextConcurrent ==
    \E t \in Threads :
        \/ \E r \in PoolRequests : Dispatch(t, r)
        \/ Root(t)
        \/ FetchRecipe(t)
        \/ SearchRecipes(t)
        \/ Respond(t)

SpecConcurrent == Init /\ [][NextConcurrent]_vars

\* ------------------------------------------------------------- properties
Min(a, b) == IF a < b THEN a ELSE b

\* thread t holds the value returned for a request of endpoint op
Returned(t, op) == pc[t] = "returned" /\ req[t].op = op

\* the limit a search request asks for: max_results, or 10 when it is missing
Limit(r) == IF r.max_results = Absent THEN 10 ELSE r.max_results.n

\* the request carries a keyword of at least one character
HasKeyword(r) == r.keyword # Absent /\ Len(r.keyword.s) > 0

\* two characters are the same letter, whatever their case
SameLetter(a, b) ==
    a = b \/ \E j \in 1..26 : {a, b} = {UpperCase[j], LowerCase[j]}

\* the text kw occurs in the text label, letters compared regardless of case
ContainsCI(kw, label) ==
    \E off \in 0..(Len(label) - Len(kw)) :
        \A j \in 1..Len(kw) : SameLetter(kw[j], label[off + j])

\* positions in the collection of the records whose label contains kw
MatchIdx(kw) == { i \in 1..Len(RECIPES) : ContainsCI(kw, RECIPES[i].label.s) }

\* C1: fetch_recipe returns the record whose id is the supplied identifier
\* when there is one, and an explicit NotFound failure otherwise.
C1_GetByIdContract ==
    \A t \in Threads :
        Returned(t, "fetch_recipe") =>
            LET want == { i \in 1..Len(RECIPES) :
                            RECIPES[i].id.n = DigitsValue(req[t].recipe_id.s) }
            IN  IF want # {}
                THEN \E i \in want : resp[t] = RetRecipe(RECIPES[i])
                ELSE resp[t].kind = "NotFound"

\* C2: for every non-empty keyword and every limit k, each returned label
\* contains the keyword case-insensitively and at most k records are returned.
C2_SearchLabelsAndCount ==
    \A t \in Threads :
        (Returned(t, "search_recipes") /\ HasKeyword(req[t])) =>
            /\ resp[t].kind = "results"
            /\ \A j \in 1..Len(resp[t].results) :
                   ContainsCI(req[t].keyword.s, resp[t].results[j].label.s)
            /\ Len(resp[t].results) <= Limit(req[t])

\* C3: with a non-empty keyword and k >= 0 the results are exactly the first
\* min(k, m) of the m matching records, in collection order.
C3_SearchFirstMatchesInOrder ==
    \A t \in Threads :
        (Returned(t, "search_recipes") /\ HasKeyword(req[t]) /\ Limit(req[t]) >= 0) =>
            LET idx == MatchIdx(req[t].keyword.s)
                res == resp[t].results
            IN  /\ resp[t].kind = "results"
                /\ Len(res) = Min(Limit(req[t]), Cardinality(idx))
                /\ \A j \in 1..Len(res) :
                       \E i \in idx :
                           /\ Cardinality({ h \in idx : h < i }) = j - 1
                           /\ res[j] = RECIPES[i]

\* a search for "chicken" with limit 1 returned record 1 only, although two
\* records match
C3_Witness ==
    \E t \in Threads :
        /\ Returned(t, "search_recipes")
        /\ req[t].keyword = PyStr(<<"c", "h", "i", "c", "k", "e", "n">>)
        /\ req[t].max_results = PyInt(1)
        /\ Cardinality(MatchIdx(req[t].keyword.s)) = 2
        /\ resp[t].results = <<RECIPES[1]>>

\* C4: without a keyword and with k >= 0 the listing is exactly the first
\* min(k, |collection|) records in insertion order; a limit above the size
\* of the collection returns all of it.
C4_ListFirstK ==
    \A t \in Threads :
        (Returned(t, "search_recipes") /\ req[t].keyword = Absent
            /\ req[t].max_results # Absent /\ req[t].max_results.n >= 0) =>
            /\ resp[t].kind = "results"
            /\ Len(resp[t].results) = Min(req[t].max_results.n, Len(RECIPES))
            /\ \A j \in 1..Len(resp[t].results) : resp[t].results[j] = RECIPES[j]

\* a listing with a limit above the size of the collection returned all of it
C4_Witness ==
    \E t \in Threads :
        /\ Returned(t, "search_recipes")
        /\ req[t].keyword = Absent
        /\ req[t].max_results # Absent
        /\ req[t].max_results.n > Len(RECIPES)
        /\ resp[t].results = RECIPES

\* C5: a negative max_results yields an InvalidArgument failure and no
\* records, with and without a keyword.
C5_NegativeLimitRejected ==
    \A t \in Threads :
        (Returned(t, "search_recipes") /\ req[t].max_results # Absent
            /\ req[t].max_results.n < 0) =>
            /\ resp[t].kind = "InvalidArgument"
            /\ resp[t].results = <<>>

C7_EmptyKeywordIsList ==
    LET Keyless(t) == /\ Returned(t, "search_recipes")
                      /\ req[t].keyword \in { Absent, PyStr(<<>>) }
    IN  /\ \A t \in Threads :
               (Keyless(t) /\ Limit(req[t]) >= 0) =>
                   resp[t] = RetResults(SubSeq(RECIPES, 1,
                                 Min(Limit(req[t]), Len(RECIPES))))
        /\ \A t, u \in Threads :
               (Keyless(t) /\ Keyless(u) /\ Limit(req[t]) = Limit(req[u])) =>
                   resp[t] = resp[u]

\* one thread answered a search without keyword and another a search with
\* keyword "", both without a limit, and both returned the whole collection
C7_Witness ==
    \E t, u \in Threads :
        /\ Returned(t, "search_recipes") /\ Returned(u, "search_recipes")
        /\ req[t].keyword = Absent /\ req[u].keyword = PyStr(<<>>)
        /\ req[t].max_results = Absent /\ req[u].max_results = Absent
        /\ resp[t].results = RECIPES

\* C8: RECIPES keeps its initial value through every interleaving of the
\* three endpoints, and two calls with identical arguments return identical
\* values however long apart they are answered.
C8_CollectionNeverMutated ==
    /\ RECIPES = SeedRecipes
    /\ \A t, u \in Threads :
           (pc[t] = "returned" /\ pc[u] = "returned" /\ req[t] = req[u]) =>
               resp[t] = resp[u]

\* two threads hold the answers to the same search request while the
\* collection is unchanged
C8_Witness ==
    \E t, u \in Threads :
        /\ t # u
        /\ Returned(t, "search_recipes") /\ Returned(u, "search_recipes")
        /\ req[t] = req[u]
        /\ Len(resp[t].results) > 0
        /\ RECIPES = SeedRecipes

\* C9: a non-empty keyword contained in no label gives, for every limit
\* k >= 0, a successful value whose "results" is the empty sequence.
C9_NoMatchGivesEmptyResults ==
    \A t \in Threads :
        (Returned(t, "search_recipes") /\ HasKeyword(req[t])
            /\ MatchIdx(req[t].keyword.s) = {} /\ Limit(req[t]) >= 0) =>
            resp[t] = RetResults(<<>>)

\* a search for "xyz", which no label contains, has been answered
C9_Witness ==
    \E t \in Threads :
        /\ Returned(t, "search_recipes")
        /\ req[t].keyword = PyStr(<<"x", "y", "z">>)
        /\ MatchIdx(req[t].keyword.s) = {}
        /\ resp[t].kind = "results"

====
